---- MODULE Spec2Model ----
(***************************************************************************)
(* A model of the session analytics of calculation.py (process_data) and   *)
(* of the backtest of scenarios/trade_buffer.py (analyze_session,          *)
(* compute_winning_streaks, main).                                         *)
(*                                                                         *)
(* Numbers.  The float columns are modelled exactly:                       *)
(*   - a quotient column (typical_price, cum_tp_volume, VWAP) is a         *)
(*     rational <<n, d>> in lowest terms with d > 0; the IEEE results of   *)
(*     a division by zero are <<0, 0>> (NaN) and <<1, 0>>, <<-1, 0>>       *)
(*     (+inf, -inf);                                                       *)
(*   - a column that involves the square root of the standard deviation    *)
(*     (session_std, vwap_upper, vwap_lower) is a record                   *)
(*     [q, c, m] standing for q + c * sqrt(m), q and c rationals, m a      *)
(*     square-free natural, with c = 0 exactly when m = 1.                 *)
(* A timestamp is a record [date, time]: a day number and the minutes      *)
(* since midnight; timestamps are ordered lexicographically.               *)
(***************************************************************************)
EXTENDS Integers, Sequences, FiniteSets, TLC

VARIABLES
    pc,               \* position of the running program
    days_back,        \* process_data: parameter days_back
    target_time,      \* process_data: parameter target_time (minutes)
    df,               \* process_data: the returned table
    sessions,         \* main: the session keys trade_data.sessions yields
    time_dtype,       \* main: dtype of the column time of the session tables
    done,             \* main: number of sessions the loop has analysed
    session,          \* main: key of the session analysed last
    session_df,       \* main: rows of the session analysed last
    result,           \* main: what analyze_session returned for it
    session_results,  \* main: the list session_results
    streaks           \* main: (longest, average, shortest) of the summary

vars == <<pc, days_back, target_time, df,
          sessions, time_dtype, done, session, session_df, result, session_results, streaks>>

-----------------------------------------------------------------------------
(* Bounds of the model *)

MaxBars == 3        \* rows of csv_file
MaxDays == 2        \* calendar days the rows of csv_file span
MaxSessions == 2    \* sessions trade_data.sessions yields
MaxResults == 4     \* length of the list given to compute_winning_streaks
MaxRowsPerTime == 2 \* rows of one time of day in a session given to analyze_session

-----------------------------------------------------------------------------
(* Exact arithmetic *)

Abs(x) == IF x < 0 THEN -x ELSE x

RECURSIVE Gcd(_, _)
Gcd(a, b) == IF b = 0 THEN a ELSE Gcd(b, a % b)

Sign(x) == IF x > 0 THEN 1 ELSE IF x < 0 THEN -1 ELSE 0

NaN == <<0, 0>>

IsNaN(a) == a[2] = 0 /\ a[1] = 0

IsFinite(a) == a[2] # 0

\* the rational n / d, or the IEEE value of the division when d = 0
Rat(n, d) ==
    IF d = 0 THEN <<Sign(n), 0>>
    ELSE LET g == Gcd(Abs(n), Abs(d))
         IN  <<Sign(d) * (n \div g), Abs(d) \div g>>

RatOfInt(i) == <<i, 1>>

RAdd(a, b) ==
    IF IsFinite(a) /\ IsFinite(b) THEN Rat(a[1] * b[2] + b[1] * a[2], a[2] * b[2])
    ELSE IF IsNaN(a) \/ IsNaN(b) THEN NaN
    ELSE IF ~IsFinite(a) /\ ~IsFinite(b)
         THEN (IF a[1] = b[1] THEN a ELSE NaN)
    ELSE IF IsFinite(a) THEN b ELSE a

RNeg(a) == <<-a[1], a[2]>>

RSub(a, b) == RAdd(a, RNeg(b))

RMul(a, b) ==
    IF IsFinite(a) /\ IsFinite(b) THEN Rat(a[1] * b[1], a[2] * b[2])
    ELSE IF IsNaN(a) \/ IsNaN(b) \/ a[1] = 0 \/ b[1] = 0 THEN NaN
    ELSE <<Sign(a[1]) * Sign(b[1]), 0>>

\* RDiv with a zero divisor giving 0
RDivZeroMutant(a, b) == IF b[1] = 0 THEN RatOfInt(0) ELSE Rat(a[1] * b[2], a[2] * b[1])

\* a / b for finite a and b, as float division in a pandas column does it:
\* a zero divisor raises nothing and leaves NaN (0 / 0) or an infinity
RDiv(a, b) == Rat(a[1] * b[2], a[2] * b[1])

\* a >= b and a <= b on finite rationals (a comparison with NaN is false)
RGe(a, b) == IsFinite(a) /\ IsFinite(b) /\ a[1] * b[2] >= b[1] * a[2]

RLe(a, b) == IsFinite(a) /\ IsFinite(b) /\ a[1] * b[2] <= b[1] * a[2]

RGt(a, b) == IsFinite(a) /\ IsFinite(b) /\ a[1] * b[2] > b[1] * a[2]

RECURSIVE SquarePartFrom(_, _)
\* the largest s >= k with s * s dividing n (n >= 1), searching upward from k
SquarePartFrom(n, k) ==
    IF k * k > n THEN 1
    ELSE LET rest == SquarePartFrom(n, k + 1)
         IN  IF rest > 1 THEN rest
             ELSE IF n % (k * k) = 0 THEN k ELSE 1

\* the largest s with s * s dividing n
SquarePart(n) == IF n <= 1 THEN 1 ELSE SquarePartFrom(n, 2)

RealOfRat(a) == [q |-> a, c |-> RatOfInt(0), m |-> 1]

\* sqrt(a) for a rational a >= 0: sqrt(p / d) = s * sqrt(m) / d, p * d = s * s * m
RSqrt(a) ==
    IF ~IsFinite(a) THEN RealOfRat(a)
    ELSE LET n == a[1] * a[2]
             s == SquarePart(a[1]) * SquarePart(a[2])
             m == IF n = 0 THEN 1 ELSE n \div (s * s)
         IN  IF n = 0 THEN RealOfRat(RatOfInt(0))
             ELSE IF m = 1 THEN RealOfRat(Rat(s, a[2]))
             ELSE [q |-> RatOfInt(0), c |-> Rat(s, a[2]), m |-> m]

\* k * x for an integer k
RealScale(k, x) ==
    LET c == RMul(RatOfInt(k), x.c)
    IN  [q |-> RMul(RatOfInt(k), x.q), c |-> c, m |-> IF c[1] = 0 THEN 1 ELSE x.m]

\* a + x for a rational a; NaN absorbs the irrational part
RealAddRat(a, x) ==
    LET q == RAdd(a, x.q)
    IN  IF IsFinite(q) THEN [x EXCEPT !.q = q] ELSE RealOfRat(q)

RealIsZero(x) == x.q = RatOfInt(0) /\ x.c = RatOfInt(0)

-----------------------------------------------------------------------------
(* Sequences *)

Range(s) == {s[i] : i \in 1..Len(s)}

RECURSIVE SumRat(_, _)
\* the sum of f[i] over the indices of the sequence idx, left to right
SumRat(f, idx) ==
    IF idx = <<>> THEN RatOfInt(0)
    ELSE RAdd(SumRat(f, SubSeq(idx, 1, Len(idx) - 1)), f[idx[Len(idx)]])

RECURSIVE SumInt(_, _)
SumInt(f, idx) ==
    IF idx = <<>> THEN 0
    ELSE SumInt(f, SubSeq(idx, 1, Len(idx) - 1)) + f[idx[Len(idx)]]

-----------------------------------------------------------------------------
(* calculation.py: the input of process_data *)

nine_thirty == 570            \* "09:30:00", minutes since midnight

DefaultTargetTime == 750      \* target_time = "12:30"

\* times of day of the bars: overnight (08:00), the cutoff, the target time
\* and an afternoon bar (15:00)
TimesOfDay == {480, nine_thirty, DefaultTargetTime, 900}

\* High, Low, Close and Volume of a bar
BarKinds ==
    { [High |-> 4, Low |-> 0, Close |-> 1, Volume |-> 1],
      [High |-> 3, Low |-> 3, Close |-> 3, Volume |-> 0],
      [High |-> 8, Low |-> 0, Close |-> 7, Volume |-> 2] }

DaysBackValues == {1, 10}

Datetimes == [date : 1..MaxDays, time : TimesOfDay]

DtLe(a, b) == a.date < b.date \/ (a.date = b.date /\ a.time <= b.time)

Reverse(s) == [i \in 1..Len(s) |-> s[Len(s) + 1 - i]]

IsChronological(dts) ==
    \A i \in 1..(Len(dts) - 1) : DtLe(dts[i], dts[i + 1])

\* csv_file: an export of n rows, oldest first or newest first, rows of
\* equal timestamp in any order. A row after STEP A's parse holds the index
\* datetime (Date and Time combined), High, Low, Close and Volume (Open is
\* read only by the daily print of lines 93-101).
CsvFiles(n) ==
    { [i \in 1..n |->
          [datetime |-> dts[i], High |-> ks[i].High, Low |-> ks[i].Low,
           Close |-> ks[i].Close, Volume |-> ks[i].Volume]] :
        dts \in {d \in [1..n -> Datetimes] : IsChronological(d) \/ IsChronological(Reverse(d))},
        ks \in [1..n -> BarKinds] }

-----------------------------------------------------------------------------
(* calculation.py: process_data *)

IsMonotonicIncreasing(rows) ==
    \A i \in 1..(Len(rows) - 1) : DtLe(rows[i].datetime, rows[i + 1].datetime)

\* df.sort_index(): the rows ordered by datetime. A sorted index is left as
\* it is; otherwise the sort (quicksort) is not stable, and rows of equal
\* datetime come out in any order.
SortIndex(rows) ==
    IF IsMonotonicIncreasing(rows) THEN {rows}
    ELSE { s \in { [i \in 1..Len(rows) |-> rows[p[i]]] : p \in Permutations(1..Len(rows)) } :
             IsMonotonicIncreasing(s) }

\* STEP B: the rows of the last days_back calendar days
FilterDaysBack(rows, back) ==
    LET last_dt == (CHOOSE r \in Range(rows) :
                        \A x \in Range(rows) : DtLe(x.datetime, r.datetime)).datetime
        cutoff_dt == [date |-> last_dt.date - back, time |-> last_dt.time]
        Keep(r) == DtLe(cutoff_dt, r.datetime)
    IN  SelectSeq(rows, Keep)

\* assign_session with the overnight bars put in the day after
AssignSessionNextDay(dt) ==
    IF dt.time >= nine_thirty THEN dt.date ELSE dt.date + 1

\* STEP C
assign_session(dt) ==
    IF dt.time >= nine_thirty THEN dt.date ELSE dt.date - 1

typical_price(r) == RDiv(RatOfInt(r.High + r.Low + r.Close), RatOfInt(3))

\* the rows up to row i, whatever their session
RowsUpToAnySession(t, i) == [j \in 1..i |-> j]

\* groupby('session'): the rows of row i's session up to and including row i
GroupUpTo(t, i) ==
    LET Same(j) == j <= i /\ t[j].session = t[i].session
    IN  SelectSeq([j \in 1..Len(t) |-> j], Same)

\* x.expanding().std(): the sample standard deviation (ddof = 1) of the
\* values xs seen so far, NaN for fewer than two values
ExpandingStd(xs) ==
    LET n == Len(xs)
        all == [i \in 1..n |-> i]
        mean == RDiv(SumRat(xs, all), RatOfInt(n))
        sq == [i \in 1..n |-> RMul(RSub(xs[i], mean), RSub(xs[i], mean))]
    IN  IF n < 2 THEN RealOfRat(NaN)
        ELSE RSqrt(RDiv(SumRat(sq, all), RatOfInt(n - 1)))

FillNa0(x) == IF IsNaN(x.q) THEN RealOfRat(RatOfInt(0)) ELSE x

\* line 49 left out
KeepStdBeforeCutoff(time, std) == std

\* line 49: session_std is overwritten by 0 on every bar before 09:30
ZeroStdBeforeCutoff(time, std) ==
    IF time < nine_thirty THEN RealOfRat(RatOfInt(0)) ELSE std

\* STEP C and STEP D: the columns date, time, session, typical_price,
\* cum_count, cum_tp_volume, cum_volume, VWAP, session_std and the bands
WithVwapBands(rows) ==
    LET t == [i \in 1..Len(rows) |->
                [datetime |-> rows[i].datetime, High |-> rows[i].High,
                 Low |-> rows[i].Low, Close |-> rows[i].Close,
                 Volume |-> rows[i].Volume,
                 date |-> rows[i].datetime.date, time |-> rows[i].datetime.time,
                 session |-> assign_session(rows[i].datetime),
                 typical_price |-> typical_price(rows[i])]]
        tpv == [i \in 1..Len(t) |-> RMul(t[i].typical_price, RatOfInt(t[i].Volume))]
        vol == [i \in 1..Len(t) |-> t[i].Volume]
        Columns(i) ==
            LET g == GroupUpTo(t, i)
                cum_tp_volume == SumRat(tpv, g)
                cum_volume == SumInt(vol, g)
                VWAP == RDiv(cum_tp_volume, RatOfInt(cum_volume))
                std == ZeroStdBeforeCutoff(t[i].time,
                           FillNa0(ExpandingStd([k \in 1..Len(g) |-> t[g[k]].typical_price])))
            IN  [cum_count |-> Len(g),
                 cum_tp_volume |-> cum_tp_volume,
                 cum_volume |-> cum_volume,
                 VWAP |-> VWAP,
                 session_std |-> std,
                 vwap_upper |-> RealAddRat(VWAP, RealScale(2, std)),
                 vwap_lower |-> RealAddRat(VWAP, RealScale(-2, std))]
    IN  [i \in 1..Len(t) |-> t[i] @@ Columns(i)]

None == [none |-> TRUE]

NoLabel == "nan"    \* the NaN of a bar without target_label

high_threshold == <<3, 4>>    \* 0.75

low_threshold == <<1, 4>>     \* 0.25

\* lines 71-79 with > in place of >= and < in place of <=
ClassifyStrict(final_close, low, rng) ==
    IF rng = 0 THEN "neutral"
    ELSE LET position == RDiv(RatOfInt(final_close - low), RatOfInt(rng))
         IN  IF RGt(position, high_threshold) THEN "high"
             ELSE IF RGt(low_threshold, position) THEN "low"
             ELSE "neutral"

\* lines 71-79: the label from the close, the low and the range
Classify(final_close, low, rng) ==
    IF rng = 0 THEN "neutral"
    ELSE LET position == RDiv(RatOfInt(final_close - low), RatOfInt(rng))
         IN  IF RGe(position, high_threshold) THEN "high"
             ELSE IF RLe(position, low_threshold) THEN "low"
             ELSE "neutral"

MaxOf(S) == CHOOSE x \in S : \A y \in S : y <= x

MinOf(S) == CHOOSE x \in S : \A y \in S : x <= y

\* line 66: the rows of the session whose time of day is <= check_time
SessionUpToCheck(sdf, check_time) ==
    LET UpTo(r) == r.time <= check_time
    IN  SelectSeq(sdf, UpTo)

\* None, or the pair (final_dt, label) as a record
label_intraday_state(sdf, check_time) ==
    LET AtTarget(r) == r.time = check_time
        target_bar == SelectSeq(sdf, AtTarget)
        selected_bar == target_bar[Len(target_bar)]
        session_up_to_check == SessionUpToCheck(sdf, check_time)
        high == MaxOf({r.High : r \in Range(session_up_to_check)})
        low == MinOf({r.Low : r \in Range(session_up_to_check)})
    IN  IF target_bar = <<>> THEN None
        ELSE [final_dt |-> selected_bar.datetime,
              label |-> Classify(selected_bar.Close, low, high - low)]

\* the group of session key in df.groupby('session')
SessionGroup(t, key) ==
    LET In(r) == r.session = key
    IN  SelectSeq(t, In)

RECURSIVE TargetTimeLabels(_, _, _)
\* lines 81-86: the dict target_time_labels after the sessions keys have
\* been visited in ascending order
TargetTimeLabels(t, keys, check_time) ==
    IF keys = {} THEN <<>>
    ELSE LET session_key == MaxOf(keys)
             before == TargetTimeLabels(t, keys \ {session_key}, check_time)
             res == label_intraday_state(SessionGroup(t, session_key), check_time)
         IN  IF res = None THEN before ELSE (res.final_dt :> res.label) @@ before

\* line 90: df.index.map(target_time_labels)
WithTargetLabel(t, check_time) ==
    LET target_time_labels ==
            TargetTimeLabels(t, {r.session : r \in Range(t)}, check_time)
    IN  [i \in 1..Len(t) |->
            t[i] @@ [target_label |->
                        IF t[i].datetime \in DOMAIN target_time_labels
                        THEN target_time_labels[t[i].datetime] ELSE NoLabel]]

\* the tables process_data can return for the rows of csv_file
process_data(rows, back, check_time) ==
    { WithTargetLabel(WithVwapBands(FilterDaysBack(sorted, back)), check_time) :
        sorted \in SortIndex(rows) }

\* a call of process_data: read_csv reads a csv_file of at most MaxBars rows
ProcessData ==
    /\ pc = "start"
    /\ \E n \in 1..MaxBars : \E rows \in CsvFiles(n) :
          df' \in process_data(rows, days_back, target_time)
    /\ pc' = "returned"
    /\ UNCHANGED <<days_back, target_time, sessions, time_dtype, done, session,
                   session_df, result, session_results, streaks>>

InitProcess ==
    /\ pc = "start"
    /\ days_back \in DaysBackValues
    /\ target_time = DefaultTargetTime
    /\ df = <<>>
    /\ sessions = <<>>
    /\ time_dtype = "object"
    /\ done = 0
    /\ session = <<>>
    /\ session_df = <<>>
    /\ result = None
    /\ session_results = <<>>
    /\ streaks = <<>>

NextProcess == ProcessData

SpecProcess == InitProcess /\ [][NextProcess]_vars

-----------------------------------------------------------------------------
(* Properties of the table returned by process_data *)

Returned == pc = "returned"

Rows == 1..Len(df)

Labelled(i) == df[i].target_label # NoLabel

SameSession(i, j) == df[i].session = df[j].session

\* the rows of the session of row i that are at the target time
TargetRows(i) == {j \in Rows : SameSession(i, j) /\ df[j].time = target_time}

\* row i is the last row at the target time of its session
IsTargetBar(i) == i \in TargetRows(i) /\ \A j \in TargetRows(i) : j <= i

\* C1: in the returned table every bar with a target_label is at the target
\* time of day, and no session holds two bars with a target_label.
C1_OneLabelPerSession ==
    Returned =>
        /\ \A i \in Rows : Labelled(i) => df[i].time = target_time
        /\ \A i, j \in Rows : Labelled(i) /\ Labelled(j) /\ SameSession(i, j) => i = j

\* the label the claimed rule gives for a close, a low and a high
ClaimedLabel(close, low, high) ==
    IF high - low = 0 THEN "neutral"
    ELSE IF 4 * (close - low) >= 3 * (high - low) THEN "high"
    ELSE IF 4 * (close - low) <= high - low THEN "low"
    ELSE "neutral"

\* the rows of the session of row i with a time of day <= the target time
TimeOfDayPrefix(i) == {j \in Rows : SameSession(i, j) /\ df[j].time <= target_time}

\* the rows of the session of row i at or before row i in timestamp order
TimestampPrefix(i) == {j \in Rows : SameSession(i, j) /\ DtLe(df[j].datetime, df[i].datetime)}

\* C5: the label of a session with a bar at the target time is neutral when
\* high - low = 0, else high when (close - low) / range >= 0.75, low when it
\* is <= 0.25, and neutral in between, close being the Close of the last bar
\* at the target time (high and low taken over the rows line 66 selects).
C5_LabelThresholds ==
    Returned =>
        \A i \in Rows : IsTargetBar(i) =>
            df[i].target_label =
                ClaimedLabel(df[i].Close,
                             MinOf({df[j].Low : j \in TimeOfDayPrefix(i)}),
                             MaxOf({df[j].High : j \in TimeOfDayPrefix(i)}))

\* a table with a session labelled high at position exactly 0.75 and a
\* session labelled low at position exactly 0.25
C5_Witness ==
    /\ Returned
    /\ \E i \in Rows : /\ IsTargetBar(i)
                       /\ df[i].target_label = "high"
                       /\ LET lo == MinOf({df[j].Low : j \in TimeOfDayPrefix(i)})
                              hi == MaxOf({df[j].High : j \in TimeOfDayPrefix(i)})
                          IN  4 * (df[i].Close - lo) = 3 * (hi - lo)
    /\ \E i \in Rows : /\ IsTargetBar(i)
                       /\ df[i].target_label = "low"
                       /\ LET lo == MinOf({df[j].Low : j \in TimeOfDayPrefix(i)})
                              hi == MaxOf({df[j].High : j \in TimeOfDayPrefix(i)})
                          IN  4 * (df[i].Close - lo) = hi - lo

\* C9: the high and low behind the label of a session are the maximum High
\* and minimum Low over the bars of the session at or before its target bar
\* in timestamp order, so no later bar of the session changes the label.
C9_LabelFromTimestampPrefix ==
    Returned =>
        \A i \in Rows : IsTargetBar(i) =>
            df[i].target_label =
                ClaimedLabel(df[i].Close,
                             MinOf({df[j].Low : j \in TimestampPrefix(i)}),
                             MaxOf({df[j].High : j \in TimestampPrefix(i)}))

\* the row before row i in the session of row i, 0 when row i is its first
PrevInSession(i) ==
    IF \E j \in 1..(i - 1) : SameSession(i, j)
    THEN MaxOf({j \in 1..(i - 1) : SameSession(i, j)})
    ELSE 0

TpVolume(i) == RMul(df[i].typical_price, RatOfInt(df[i].Volume))

\* C6: at the first bar of a session cum_count = 1, cum_volume = Volume and
\* cum_tp_volume = typical_price * Volume; at a later bar each is its value
\* at the previous bar of the same session plus the bar's own contribution;
\* cum_count at the last bar of a session is the number of its bars.
C6_CumulativeColumns ==
    Returned =>
        \A i \in Rows :
            LET p == PrevInSession(i)
            IN  /\ typical_price(df[i]) = df[i].typical_price
                /\ p = 0 => /\ df[i].cum_count = 1
                            /\ df[i].cum_volume = df[i].Volume
                            /\ df[i].cum_tp_volume = TpVolume(i)
                /\ p # 0 => /\ df[i].cum_count = df[p].cum_count + 1
                            /\ df[i].cum_volume = df[p].cum_volume + df[i].Volume
                            /\ df[i].cum_tp_volume = RAdd(df[p].cum_tp_volume, TpVolume(i))
                /\ (\A j \in Rows : SameSession(i, j) => j <= i)
                      => df[i].cum_count = Cardinality({j \in Rows : SameSession(i, j)})

\* a table where a session of two bars with volume follows another session
C6_Witness ==
    /\ Returned
    /\ \E i, j, k \in Rows :
          /\ i < j /\ j < k
          /\ ~SameSession(i, j) /\ SameSession(j, k)
          /\ df[i].Volume > 0 /\ df[j].Volume > 0 /\ df[k].Volume > 0

\* C7: with a cumulative volume of 0 process_data does not raise and the
\* bar's VWAP is NaN; every other bar's VWAP is the quotient of the
\* cumulative columns of its own session.
C7_NullVwapOnZeroVolume ==
    Returned =>
          \A i \in Rows :
              /\ df[i].cum_volume = 0 => IsNaN(df[i].VWAP)
              /\ df[i].cum_volume # 0 =>
                    /\ IsFinite(df[i].VWAP)
                    /\ df[i].VWAP[1] * df[i].cum_volume * df[i].cum_tp_volume[2]
                          = df[i].cum_tp_volume[1] * df[i].VWAP[2]

\* a table with a zero-volume first bar of a session and a bar with volume
\* in another session
C7_Witness ==
    /\ Returned
    /\ \E i, j \in Rows :
          /\ PrevInSession(i) = 0 /\ df[i].Volume = 0 /\ IsNaN(df[i].VWAP)
          /\ ~SameSession(i, j) /\ df[j].cum_volume > 0

\* C8: every bar before 09:30 has session_std exactly 0, so that
\* vwap_upper = vwap_lower = VWAP on it.
C8_ZeroStdBeforeCutoff ==
    Returned =>
        \A i \in Rows : df[i].time < nine_thirty =>
            /\ RealIsZero(df[i].session_std)
            /\ df[i].vwap_upper = RealOfRat(df[i].VWAP)
            /\ df[i].vwap_lower = RealOfRat(df[i].VWAP)

\* an overnight bar that is the third bar of its session, after bars of
\* different typical prices and a positive standard deviation
C8_Witness ==
    /\ Returned
    /\ \E i \in Rows :
          /\ df[i].time < nine_thirty
          /\ df[i].cum_count >= 3
          /\ df[i].cum_volume > 0
          /\ \E j \in 1..(i - 1) : SameSession(i, j) /\ ~RealIsZero(df[j].session_std)

\* C10: a bar's session is its own date from 09:30 on and the day before
\* otherwise; in the table, sorted by timestamp, the session never
\* decreases, so the bars of a session are one contiguous run.
C10_SessionsMonotone ==
    Returned =>
        /\ \A i \in Rows :
              df[i].session = IF df[i].time >= nine_thirty THEN df[i].date ELSE df[i].date - 1
        /\ \A i, j \in Rows :
              DtLe(df[i].datetime, df[j].datetime) /\ df[i].datetime # df[j].datetime
                  => df[i].session <= df[j].session
        /\ \A i, j \in Rows : i < j => df[i].session <= df[j].session
        /\ \A i, j, k \in Rows : i < j /\ j < k /\ SameSession(i, k) => SameSession(i, j)

\* a table with an overnight bar between two sessions
C10_Witness ==
    /\ Returned
    /\ \E i, j, k \in Rows :
          /\ i < j /\ j < k
          /\ df[j].time < nine_thirty
          /\ SameSession(i, j) /\ ~SameSession(j, k)

-----------------------------------------------------------------------------
(* scenarios/trade_buffer.py: the input of main *)

buffer == 10

\* session keys, the date strings "2024-12-31", "2025-01-01", "2025-01-02"
\* as <<year, month, day>>
SessionKeys == {<<2024, 12, 31>>, <<2025, 1, 1>>, <<2025, 1, 2>>}

\* the target_label values of the table: NaN, the three labels of
\* process_data and two spellings in other case
TradeLabels == {NoLabel, "high", "low", "neutral", "HIGH", "Low"}

Bands == { [vwap_upper |-> 100, vwap_lower |-> 100],
           [vwap_upper |-> 110, vwap_lower |-> 90] }

Closes == {80, 120}

\* the value of the column time for a bar at minute m of the day: the
\* string of the csv file, or a datetime value (its minutes)
TimeValue(dtype, m) ==
    IF dtype = "datetime" THEN m
    ELSE CASE m = 570 -> "09:30:00"
           [] m = 750 -> "12:30:00"
           [] m = 900 -> "15:00:00"
           [] m = 960 -> "16:00:00"

TradeRow(dtype, m, label, band, close) ==
    [time |-> TimeValue(dtype, m), target_label |-> label,
     vwap_upper |-> band.vwap_upper, vwap_lower |-> band.vwap_lower,
     Close |-> close]

RECURSIVE SeqsUpTo(_, _)
\* the sequences of at most n values of S
SeqsUpTo(S, n) ==
    IF n = 0 THEN {<<>>}
    ELSE LET shorter == SeqsUpTo(S, n - 1)
         IN  shorter \cup UNION { {Append(q, a) : a \in S} : q \in shorter }

\* the rows of one session: a bar at 09:30, then at most n bars at each of
\* 12:30, 15:00 and 16:00. Bars of one timestamp carry one target_label
\* (calculation.py line 90 labels by timestamp), and only the bars at 12:30
\* carry one.
SessionTables(dtype, n) ==
    LET flat == CHOOSE b \in Bands : b.vwap_upper = b.vwap_lower
        Open930 == <<TradeRow(dtype, 570, NoLabel, flat, 100)>>
        At1230 == UNION { { [i \in 1..Len(bs) |-> TradeRow(dtype, 750, l, bs[i], 100)]
                            : bs \in SeqsUpTo(Bands, n) } : l \in TradeLabels }
        At(m) == { [i \in 1..Len(cs) |-> TradeRow(dtype, m, NoLabel, flat, cs[i])]
                     : cs \in SeqsUpTo(Closes, n) }
    IN  { Open930 \o a \o b \o c : a \in At1230, b \in At(900), c \in At(960) }

\* the sequences of at most n distinct session keys
RECURSIVE KeySequences(_)
KeySequences(n) ==
    IF n = 0 THEN {<<>>}
    ELSE LET shorter == KeySequences(n - 1)
         IN  shorter \cup
             UNION { {Append(ks, k) : k \in SessionKeys \ Range(ks)} : ks \in shorter }

-----------------------------------------------------------------------------
(* scenarios/trade_buffer.py: analyze_session *)

Pad2(n) == IF n < 10 THEN "0" \o ToString(n) ELSE ToString(n)

\* df['time'].dt.strftime("%H:%M:%S")
Strftime(m) == Pad2(m \div 60) \o ":" \o Pad2(m % 60) \o ":00"

\* lines 22-26: the column time_str
time_str(dtype, r) == IF dtype = "datetime" THEN Strftime(r.time) ELSE r.time

\* str.lower on the labels of TradeLabels
Lower(l) ==
    CASE l = "HIGH" -> "high"
      [] l = "Low" -> "low"
      [] OTHER -> l

\* the rule chosen without lower-casing the label
TradeRuleCaseSensitive(target_label) ==
    IF target_label = "high" THEN "short"
    ELSE IF target_label = "low" THEN "long"
    ELSE "unrecognized"

\* lines 46-52: the rule a label selects
TradeRule(target_label) ==
    IF Lower(target_label) = "high" THEN "short"
    ELSE IF Lower(target_label) = "low" THEN "long"
    ELSE "unrecognized"

\* lines 46-49
EntryPrice(rule, entry_row) ==
    IF rule = "short" THEN entry_row.vwap_upper + buffer
    ELSE entry_row.vwap_lower - buffer

\* lines 67-72
Profit(rule, entry_price, price) ==
    IF rule = "short" THEN entry_price - price ELSE price - entry_price

\* a trade with no profit counted as profitable
ProfitableOrFlat(profit) == profit >= 0

\* lines 80 and 83
Profitable(profit) == profit > 0

\* None, or the dict of the session's result
analyze_session(key, dtype, sdf) ==
    LET At(t) == LET Is(r) == time_str(dtype, r) = t IN SelectSeq(sdf, Is)
        row_1230 == At("12:30:00")
        row_1500 == At("15:00:00")
        row_1600 == At("16:00:00")
        entry_row == row_1230[1]
        target_label == entry_row.target_label
        rule == TradeRule(target_label)
        entry_price == EntryPrice(rule, entry_row)
        price_1500 == row_1500[1].Close
        price_16 == row_1600[1].Close
        profit_15 == Profit(rule, entry_price, price_1500)
        profit_16 == Profit(rule, entry_price, price_16)
    IN  IF row_1230 = <<>> THEN None
        ELSE IF target_label = NoLabel THEN None
        ELSE IF rule = "unrecognized" THEN None
        ELSE IF row_1500 = <<>> THEN None
        ELSE IF row_1600 = <<>> THEN None
        ELSE [session |-> key,
              target_label |-> target_label,
              entry_price |-> entry_price,
              price_15 |-> price_1500,
              profit_15 |-> profit_15,
              profitable_15 |-> Profitable(profit_15),
              price_16 |-> price_16,
              profit_16 |-> profit_16,
              profitable_16 |-> Profitable(profit_16)]

-----------------------------------------------------------------------------
(* scenarios/trade_buffer.py: compute_winning_streaks *)

\* datetime.strptime(x["session"], "%Y-%m-%d") < the same of y
DateLt(x, y) ==
    \/ x[1] < y[1]
    \/ x[1] = y[1] /\ x[2] < y[2]
    \/ x[1] = y[1] /\ x[2] = y[2] /\ x[3] < y[3]

RECURSIVE InsertByDate(_, _)
\* res put into the sorted list s after every element not later than it
InsertByDate(s, res) ==
    IF s = <<>> THEN <<res>>
    ELSE IF DateLt(res.session, s[Len(s)].session)
         THEN Append(InsertByDate(SubSeq(s, 1, Len(s) - 1), res), s[Len(s)])
         ELSE Append(s, res)

\* the list as it is given
Unsorted(results) == results

RECURSIVE SortedByDate(_)
\* lines 94-97: sorted() by session date, ascending and stable
SortedByDate(results) ==
    IF results = <<>> THEN <<>>
    ELSE InsertByDate(SortedByDate(SubSeq(results, 1, Len(results) - 1)),
                      results[Len(results)])

RECURSIVE StreakLoop(_, _, _)
\* lines 99-109: the list streaks after the loop over rs and the final append
StreakLoop(rs, acc, current_streak) ==
    IF rs = <<>>
    THEN (IF current_streak > 0 THEN Append(acc, current_streak) ELSE acc)
    ELSE IF Head(rs).profitable_16
         THEN StreakLoop(Tail(rs), acc, current_streak + 1)
         ELSE StreakLoop(Tail(rs),
                         IF current_streak > 0 THEN Append(acc, current_streak) ELSE acc,
                         0)

\* (longest, average, shortest)
compute_winning_streaks(results) ==
    LET sorted_results == SortedByDate(results)
        ss == StreakLoop(sorted_results, <<>>, 0)
        all == [i \in 1..Len(ss) |-> i]
    IN  IF ss # <<>>
        THEN <<MaxOf(Range(ss)), Rat(SumInt(ss, all), Len(ss)), MinOf(Range(ss))>>
        ELSE <<0, RatOfInt(0), 0>>

-----------------------------------------------------------------------------
(* scenarios/trade_buffer.py: main *)

\* lines 126-129: one turn of the loop over trade_data.sessions, whose
\* next session is any table with one bar for a time of day
AnalyzeNext ==
    /\ pc = "loop"
    /\ done < Len(sessions)
    /\ \E sdf \in SessionTables(time_dtype, 1) :
          LET res == analyze_session(sessions[done + 1], time_dtype, sdf)
          IN  /\ session' = sessions[done + 1]
              /\ session_df' = sdf
              /\ result' = res
              /\ session_results' =
                    IF res # None THEN Append(session_results, res) ELSE session_results
    /\ done' = done + 1
    /\ UNCHANGED <<pc, days_back, target_time, df, sessions, time_dtype, streaks>>

\* lines 131-165: the summary (the streaks; the means and counts of the
\* report are written out and read by nothing)
Summarize ==
    /\ pc = "loop"
    /\ done = Len(sessions)
    /\ streaks' = compute_winning_streaks(session_results)
    /\ pc' = "done"
    /\ UNCHANGED <<days_back, target_time, df, sessions, time_dtype, done,
                   session, session_df, result, session_results>>

InitTrade ==
    /\ pc = "loop"
    /\ days_back = 0
    /\ target_time = DefaultTargetTime
    /\ df = <<>>
    /\ sessions \in KeySequences(MaxSessions)
    /\ time_dtype = "object"
    /\ done = 0
    /\ session = <<>>
    /\ session_df = <<>>
    /\ result = None
    /\ session_results = <<>>
    /\ streaks = <<>>

NextTrade == AnalyzeNext \/ Summarize

SpecTrade == InitTrade /\ [][NextTrade]_vars

-----------------------------------------------------------------------------
(* analyze_session on its own *)

AnalyzeSession ==
    /\ pc = "call"
    /\ result' = analyze_session(session, time_dtype, session_df)
    /\ pc' = "returned"
    /\ UNCHANGED <<days_back, target_time, df, sessions, time_dtype, done,
                   session, session_df, session_results, streaks>>

InitAnalyze ==
    /\ pc = "call"
    /\ days_back = 0
    /\ target_time = DefaultTargetTime
    /\ df = <<>>
    /\ sessions = <<>>
    /\ time_dtype \in {"object", "datetime"}
    /\ done = 0
    /\ session \in SessionKeys
    /\ session_df \in SessionTables(time_dtype, MaxRowsPerTime)
    /\ result = None
    /\ session_results = <<>>
    /\ streaks = <<>>

NextAnalyze == AnalyzeSession

SpecAnalyze == InitAnalyze /\ [][NextAnalyze]_vars

-----------------------------------------------------------------------------
(* compute_winning_streaks on its own *)

\* what compute_winning_streaks reads of a result
StreakInputs == [session : SessionKeys, profitable_16 : BOOLEAN]

ComputeWinningStreaks ==
    /\ pc = "call"
    /\ streaks' = compute_winning_streaks(session_results)
    /\ pc' = "returned"
    /\ UNCHANGED <<days_back, target_time, df, sessions, time_dtype, done,
                   session, session_df, result, session_results>>

InitStreaks ==
    /\ pc = "call"
    /\ days_back = 0
    /\ target_time = DefaultTargetTime
    /\ df = <<>>
    /\ sessions = <<>>
    /\ time_dtype = "object"
    /\ done = 0
    /\ session = <<>>
    /\ session_df = <<>>
    /\ result = None
    /\ session_results \in SeqsUpTo(StreakInputs, MaxResults)
    /\ streaks = <<>>

NextStreaks == ComputeWinningStreaks

SpecStreaks == InitStreaks /\ [][NextStreaks]_vars

-----------------------------------------------------------------------------
(* Properties of analyze_session and of main *)

\* the rows of the session analysed last that are at minute m of the day
RowsAt(m) ==
    LET Is(r) == r.time = TimeValue(time_dtype, m)
    IN  SelectSeq(session_df, Is)

HighSpellings == {"high", "HIGH"}

LowSpellings == {"low", "Low"}

\* the session has a bar at 12:30 labelled high or low, a bar at 15:00 and
\* a bar at 16:00
HasTrade ==
    /\ \E i \in 1..Len(RowsAt(750)) :
          RowsAt(750)[i].target_label \in HighSpellings \cup LowSpellings
    /\ RowsAt(900) # <<>>
    /\ RowsAt(960) # <<>>

\* the place of session key k in trade_data.sessions
Place(k) == CHOOSE i \in 1..Len(sessions) : sessions[i] = k

\* C2: analyze_session returns a result exactly for a session with a bar at
\* 12:30 labelled high or low in any case, a bar at 15:00 and a bar at
\* 16:00, and None otherwise; main keeps the results in the order of the
\* sessions, goes on after a None, and ends only when every session of
\* trade_data.sessions has been analysed.
C2_ResultIffTradeRows ==
    /\ done > 0 =>
          /\ result # None <=> HasTrade
          /\ result # None =>
                /\ session_results # <<>>
                /\ session_results[Len(session_results)] = result
                /\ result.session = sessions[done]
          /\ result = None =>
                \A i \in 1..Len(session_results) : session_results[i].session # sessions[done]
    /\ \A i \in 1..Len(session_results) :
          /\ \E j \in 1..done : sessions[j] = session_results[i].session
          /\ \A k \in 1..(i - 1) :
                Place(session_results[k].session) < Place(session_results[i].session)
    /\ pc = "done" => done = Len(sessions)

\* main has ended, its first session gave None for a label in neither
\* spelling of high or low, and its second session gave a result for a
\* label in upper case
C2_Witness ==
    /\ pc = "done"
    /\ Len(sessions) = 2
    /\ Len(session_results) = 1
    /\ session_results[1].session = sessions[2]
    /\ session_results[1].target_label = "HIGH"

-----------------------------------------------------------------------------
(* Properties of compute_winning_streaks *)

DateNumber(d) == d[1] * 10000 + d[2] * 100 + d[3]

Given == 1..Len(session_results)

\* the place of the i-th given result in the order by date, results of one
\* date in the order given
Rank(i) ==
    Cardinality({j \in Given :
        \/ DateNumber(session_results[j].session) < DateNumber(session_results[i].session)
        \/ /\ session_results[j].session = session_results[i].session
           /\ j <= i})

\* profitable_16 of the results in the order by date
Flag(k) == session_results[CHOOSE i \in Given : Rank(i) = k].profitable_16

\* the maximal runs <<first, last>> of profitable results
MaximalRuns ==
    {ab \in Given \X Given :
        /\ ab[1] <= ab[2]
        /\ \A k \in ab[1]..ab[2] : Flag(k)
        /\ ab[1] = 1 \/ ~Flag(ab[1] - 1)
        /\ ab[2] = Len(session_results) \/ ~Flag(ab[2] + 1)}

RunLengths == {ab[2] - ab[1] + 1 : ab \in MaximalRuns}

\* C4: compute_winning_streaks orders the results by session date
\* ascending and returns the maximum, the mean and the minimum of the
\* lengths of the maximal runs of results profitable at 16:00, and three
\* zeros when no result is profitable.
C4_WinningStreaks ==
    pc = "returned" =>
        IF MaximalRuns = {}
        THEN streaks = <<0, RatOfInt(0), 0>>
        ELSE /\ streaks[1] = MaxOf(RunLengths)
             /\ streaks[3] = MinOf(RunLengths)
             /\ streaks[2][2] > 0
             /\ streaks[2][1] * Cardinality(MaximalRuns)
                   = streaks[2][2] * Cardinality({k \in Given : Flag(k)})

\* the flags true, true, false, true by date, given out of date order:
\* longest 2, average 1.5, shortest 1
C4_Witness ==
    /\ pc = "returned"
    /\ Len(session_results) = 4
    /\ \E i \in Given : Rank(i) # i
    /\ Flag(1) /\ Flag(2) /\ ~Flag(3) /\ Flag(4)
    /\ streaks = <<2, <<3, 2>>, 1>>

====
